---- MODULE Spec2Model ----
(***************************************************************************)
(* Quizly backend: the quiz-creation pipeline (CreateQuizView), the quiz   *)
(* CRUD views (QuizListView, QuizDetailView), and the cookie/JWT auth      *)
(* views (RegisterView, LoginView, LogoutView, RefreshTokenView).          *)
(*                                                                         *)
(* Six specifications share the variables and the actions and differ in    *)
(* the requests they send and in how many POST /quizzes runs overlap:      *)
(*   Spec         POST /quizzes runs one after the other, with replies     *)
(*                that store quizzes, then the list and detail views and   *)
(*                the deletion of a user;                                  *)
(*   DraftSpec    POST /quizzes with every request body and every reply of *)
(*                the generative backend;                                  *)
(*   ScratchSpec  overlapping POST /quizzes runs and every outcome of the  *)
(*                download: the scratch files on disk;                     *)
(*   AuthSpec     login, logout and refresh, the users signing up one at   *)
(*                a time;                                                  *)
(*   RegisterSpec overlapping POST /register requests with every body;     *)
(*   UrlSpec      extract_video_id alone, on a set of strings and then on  *)
(*                its own results.                                         *)
(* The quiz views touch the auth state only through request.user, and the  *)
(* auth views never touch quizzes, so each specification leaves the other  *)
(* side's variables unchanged.                                             *)
(*                                                                         *)
(* Python values: None is the empty sequence <<>>; an optional value x is  *)
(* <<x>>; a str that the code indexes or matches is a sequence of          *)
(* one-character strings; a dict whose keys may be absent carries the set  *)
(* of its keys in the field "keys".                                        *)
(***************************************************************************)
EXTENDS Integers, Sequences, FiniteSets, TLC

(***************************************************************************)
(* Bounds of the model                                                     *)
(***************************************************************************)
\* POST /quizzes requests made in one behaviour
MaxRuns == 2
\* questions in one reply of the generative backend
MaxDraftQuestions == 2

None == <<>>

(***************************************************************************)
(* Text                                                                    *)
(***************************************************************************)
Digits == {"0","1","2","3","4","5","6","7","8","9"}
Upper == {"A","B","C","D","E","F","G","H","I","J","K","L","M","N","O","P","Q","R","S","T","U","V","W","X","Y","Z"}
Lower == {"a","b","c","d","e","f","g","h","i","j","k","l","m","n","o","p","q","r","s","t","u","v","w","x","y","z"}

\* the character class [0-9A-Za-z_-] of the regex
IdChars == Digits \cup Upper \cup Lower \cup {"_", "-"}

\* {11} in the regex
IdLen == 11

\* "https://www.youtube.com/watch?v="
CanonicalPrefix == <<"h","t","t","p","s",":","/","/","w","w","w",".","y","o","u","t","u","b","e",".","c","o","m","/","w","a","t","c","h","?","v","=">>

HasPrefix(s, p) == Len(s) >= Len(p) /\ SubSeq(s, 1, Len(p)) = p

\* the group after "/" only, as if the regex were \/([0-9A-Za-z_-]{11})
GroupStartsAtSlashOnly(url, i) ==
    /\ i + IdLen - 1 <= Len(url)
    /\ i >= 2 /\ url[i - 1] = "/"
    /\ \A j \in i .. (i + IdLen - 1) : url[j] \in IdChars

\* i is where group 1 of (?:v=|\/)([0-9A-Za-z_-]{11}) can start in url
GroupStartsAt(url, i) ==
    /\ i + IdLen - 1 <= Len(url)
    /\ \/ i >= 2 /\ url[i - 1] = "/"
       \/ i >= 3 /\ url[i - 2] = "v" /\ url[i - 1] = "="
    /\ \A j \in i .. (i + IdLen - 1) : url[j] \in IdChars

\* re.search takes the leftmost match; None (<<>>) when there is none
extract_video_id(url) ==
    LET starts == {i \in 1 .. Len(url) : GroupStartsAt(url, i)}
    IN  IF starts = {} THEN None
        ELSE LET i == CHOOSE m \in starts : \A n \in starts : m <= n
             IN  CanonicalPrefix \o SubSeq(url, i, i + IdLen - 1)

SchemeHttp == <<"h","t","t","p",":","/","/">>
SchemeHttps == <<"h","t","t","p","s",":","/","/">>

\* serializers.URLField (Django's URLValidator), reduced to: an http(s) scheme,
\* a host holding a dot between two non-empty labels, and no whitespace anywhere
URLField(s) ==
    \E p \in {SchemeHttp, SchemeHttps} :
        /\ HasPrefix(s, p)
        /\ \A i \in 1 .. Len(s) : s[i] # " "
        /\ LET from == Len(p) + 1
               stops == {i \in from .. Len(s) : s[i] \in {"/", "?", "#"}}
               hostEnd == IF stops = {} THEN Len(s)
                          ELSE (CHOOSE m \in stops : \A n \in stops : m <= n) - 1
           IN  \E d \in (from + 1) .. (hostEnd - 1) : s[d] = "."

(***************************************************************************)
(* Inputs                                                                  *)
(***************************************************************************)
\* "https://youtu.be/dQw4w9WgXcQ?t=10"
UrlShort == <<"h","t","t","p","s",":","/","/","y","o","u","t","u",".","b","e","/","d","Q","w","4","w","9","W","g","X","c","Q","?","t","=","1","0">>
\* "https://youtu.be/abcdefghijk"
UrlOther == <<"h","t","t","p","s",":","/","/","y","o","u","t","u",".","b","e","/","a","b","c","d","e","f","g","h","i","j","k">>
\* "https://youtu.be/short": a URL with no 11-character identifier
UrlNoId == <<"h","t","t","p","s",":","/","/","y","o","u","t","u",".","b","e","/","s","h","o","r","t">>
\* "not a url"
UrlInvalid == <<"n","o","t"," ","a"," ","u","r","l">>

\* request bodies of POST /quizzes: the value of "url"
CreateBodies == {UrlShort, UrlOther, UrlNoId, UrlInvalid}

\* the users registered when the quiz side starts (User.id values)
InitialUsers == {1, 2}

\* the extensions download_audio looks for, in its order
SearchExts == <<"webm", "m4a", "mp3">>
\* the container the remote source decides on ("bestaudio/best")
RemoteExts == {"webm", "m4a", "mp4"}
\* yt-dlp downloads into <name>.<ext>.part and renames when the download completes
PartExt == "webm.part"

(***************************************************************************)
(* Replies of the generative backend, as json.loads returns them           *)
(***************************************************************************)
QuestionKeys == {"question_title", "question_options", "answer"}

QA == [keys |-> QuestionKeys, question_title |-> "Q1",
       question_options |-> <<"a", "b", "c", "d">>, answer |-> "a"]
\* three options, one of them twice, and an answer that is none of them
QBad == [keys |-> QuestionKeys, question_title |-> "Q2",
         question_options |-> <<"a", "a", "b">>, answer |-> "e"]
\* no "answer" key
QNoAnswer == [keys |-> {"question_title", "question_options"}, question_title |-> "Q3",
              question_options |-> <<"a", "b", "c", "d">>, answer |-> ""]

\* a second question as the prompt asks for them
QB == [keys |-> QuestionKeys, question_title |-> "Q4",
       question_options |-> <<"w", "x", "y", "z">>, answer |-> "z"]

QuestionShapes == {QA, QB, QBad, QNoAnswer}

QuestionLists ==
    UNION {[1 .. n -> QuestionShapes] : n \in 0 .. MaxDraftQuestions}

\* "Summarize the transcript ...": the description the backend writes for a transcript
Summary(transcript) == <<"summary of", transcript>>

\* the JSON values the reply can parse to, for a prompt carrying `transcript`,
\* the "questions" of a full dict being one of `lists`
DraftsOver(transcript, lists) ==
    {[type |-> "dict", keys |-> {"title", "description", "questions"},
      title |-> "Generated title", description |-> Summary(transcript), questions |-> qs] :
        qs \in lists}
    \cup
    \* a dict without "title" and "questions"; the empty dict; a JSON array
    {[type |-> "dict", keys |-> {"description"},
      title |-> "", description |-> Summary(transcript), questions |-> <<>>],
     [type |-> "dict", keys |-> {},
      title |-> "", description |-> <<>>, questions |-> <<>>],
     [type |-> "list", keys |-> {},
      title |-> "", description |-> <<>>, questions |-> <<>>]}

Drafts(transcript) == DraftsOver(transcript, QuestionLists)

\* what the backend call does: no api key, the call raises, text that is not
\* JSON, or text (fenced or not) that parses to a value
RepliesOver(transcript, lists) ==
    {[kind |-> k, fenced |-> FALSE, value |-> None] : k \in {"nokey", "raises", "notjson"}}
    \cup {[kind |-> "json", fenced |-> f, value |-> <<d>>] :
            f \in BOOLEAN, d \in DraftsOver(transcript, lists)}

Replies(transcript) == RepliesOver(transcript, QuestionLists)

\* generate_quiz_from_transcript: None unless the key is set, the call returns
\* and the fence-stripped text parses
generate_quiz_from_transcript(reply) ==
    IF reply.kind = "json" THEN reply.value ELSE None

\* Python truthiness of the parsed value ("if not quiz_data")
Truthy(quiz_data) ==
    /\ quiz_data # None
    /\ quiz_data[1].type = "dict" => quiz_data[1].keys # {}

(***************************************************************************)
(* State                                                                   *)
(***************************************************************************)
VARIABLES
    users,        \* auth_user table: id -> [username, email, password]
    quizzes,      \* Quiz table: id -> [user, title, description, video_url]
    questions,    \* Question table in primary-key order: rows [quiz, question_title, question_options, answer]
    nextQuizId,   \* the Quiz table's autoincrement
    disk,         \* scratch files in the working directory: path -> [by, url]
    runs,         \* POST /quizzes requests: the locals of CreateQuizView.post and where it stands
    resp,         \* the status of the last response of QuizListView / QuizDetailView (0: none yet)
    nextUserId,   \* the auth_user table's autoincrement
    pending,      \* POST /register requests between is_valid() and save()
    tokens,       \* refresh tokens issued by login: id -> user id
    blacklisted,  \* token_blacklist: the refresh tokens blacklisted
    expired,      \* refresh tokens whose lifetime has passed
    loggedOut,    \* history: cookie values carried by a logout that returned 200
    blacklistApp, \* whether the token_blacklist app is installed
    minted,       \* access tokens minted so far, by login and by refresh
    authResp,     \* the last response of an auth view
    calls         \* calls of extract_video_id on its own: [url, ret] in the order made

quizVars == <<quizzes, questions, nextQuizId, disk, runs, resp>>
authVars == <<nextUserId, pending, tokens, blacklisted, expired, loggedOut, blacklistApp,
              minted, authResp>>
vars == <<users, quizVars, authVars, calls>>

\* make_password / check_password: the stored value is a salted hash, never the text
make_password(password) == <<"pbkdf2_sha256", password>>
check_password(password, encoded) == encoded = make_password(password)

\* an email address is <<local part, domain>>
UserRow(name) ==
    [username |-> name, email |-> <<name, "example.com">>, password |-> make_password("pw")]

\* the default output_path of download_audio, whoever asks
temp_filename_shared(user) == <<"temp_audio", 0>>

\* f"temp_audio_{request.user.id}"
temp_filename(user) == <<"temp_audio_", user>>
\* f"{output_path}.{ext}"
Path(output_path, ext) == [base |-> output_path, ext |-> ext]

Remove(d, path) == [p \in DOMAIN d \ {path} |-> d[p]]
Write(d, path, content) == [p \in DOMAIN d \cup {path} |-> IF p = path THEN content ELSE d[p]]

AuthInitVars ==
    /\ pending = <<>>
    /\ tokens = <<>>
    /\ blacklisted = {}
    /\ expired = {}
    /\ loggedOut = {}
    /\ minted = 0
    /\ authResp = [op |-> "none", status |-> 0, cookies |-> {}, deleted |-> {}, errors |-> {},
                   access |-> None]

Init ==
    /\ users = [u \in InitialUsers |-> UserRow(IF u = 1 THEN "ann" ELSE "bob")]
    /\ nextUserId = 3
    /\ quizzes = <<>>
    /\ questions = <<>>
    /\ nextQuizId = 1
    /\ disk = <<>>
    /\ runs = <<>>
    /\ resp = 0
    /\ calls = <<>>
    /\ blacklistApp = TRUE
    /\ AuthInitVars

(***************************************************************************)
(* CreateQuizView.post                                                     *)
(***************************************************************************)
NewRun(user) ==
    [pc |-> "download", user |-> user, clean_url |-> None,
     temp_filename |-> temp_filename(user), audio_file |-> None, transcript |-> None,
     quiz_data |-> None, quiz |-> None, k |-> 0, status |-> 0]

\* the handler returns: its response is out, and the locals that held the
\* request's intermediate values are gone
Respond(run, status) ==
    [run EXCEPT !.pc = "done", !.status = status, !.clean_url = None,
                !.audio_file = None, !.transcript = None, !.quiz_data = None, !.k = 0]

\* views.py 35-43: the serializer, then extract_video_id
CreateQuizValidate(user, url) ==
    /\ Len(runs) < MaxRuns
    /\ user \in DOMAIN users
    /\ LET clean_url == extract_video_id(url)
           run == [NewRun(user) EXCEPT !.clean_url = clean_url]
       IN  runs' = Append(runs,
                IF ~URLField(url) \/ clean_url = None THEN Respond(run, 400) ELSE run)
    /\ UNCHANGED <<users, quizzes, questions, nextQuizId, disk, resp, authVars, calls>>

\* the exception leaves the view: the handler returns no Response (status 0)
Unhandled(run) == Respond(run, 0)

\* views.py 79-82: the except branch up to os.path.exists(audio_file); when the
\* file is there the run stands before os.remove, otherwise it answers 500
Except(run) ==
    IF run.audio_file # None /\ run.audio_file[1] \in DOMAIN disk
    THEN [Respond(run, 0) EXCEPT !.pc = "except", !.audio_file = run.audio_file]
    ELSE Respond(run, 500)

\* utils.py 52-62: ydl.download writes <output_path>.<ext>, or raises
DownloadAudio(r, outcome) ==
    /\ r \in DOMAIN runs
    /\ runs[r].pc = "download"
    /\ LET run == runs[r]
           content == [by |-> r, url |-> run.clean_url]
       IN  \/ /\ outcome = "raises"
              /\ disk' = disk
              /\ runs' = [runs EXCEPT ![r] = Respond(run, 500)]
           \/ /\ outcome = "raises_part"
              /\ disk' = Write(disk, Path(run.temp_filename, PartExt), content)
              /\ runs' = [runs EXCEPT ![r] = Respond(run, 500)]
           \/ /\ outcome \in RemoteExts
              /\ disk' = Write(disk, Path(run.temp_filename, outcome), content)
              /\ runs' = [runs EXCEPT ![r].pc = "locate"]
    /\ UNCHANGED <<users, quizzes, questions, nextQuizId, resp, authVars, calls>>

\* utils.py 64-69: the first extension for which the file exists
LocateFile(output_path) ==
    LET found == {i \in DOMAIN SearchExts : Path(output_path, SearchExts[i]) \in DOMAIN disk}
    IN  IF found = {} THEN None
        ELSE <<Path(output_path, SearchExts[CHOOSE i \in found : \A j \in found : i <= j])>>

\* utils.py 64-69, views.py 47-50
LocateAudio(r) ==
    /\ r \in DOMAIN runs
    /\ runs[r].pc = "locate"
    /\ LET audio_file == LocateFile(runs[r].temp_filename)
           run == [runs[r] EXCEPT !.audio_file = audio_file]
       IN  runs' = [runs EXCEPT ![r] =
                IF audio_file = None THEN Respond(run, 500)
                ELSE [run EXCEPT !.pc = "transcribe"]]
    /\ UNCHANGED <<users, quizzes, questions, nextQuizId, disk, resp, authVars, calls>>

\* a transcription whose failure is passed over: the run goes on without a transcript
TranscribeAudioLenient(r, ok) ==
    /\ r \in DOMAIN runs
    /\ runs[r].pc = "transcribe"
    /\ LET file == runs[r].audio_file[1]
       IN  runs' = [runs EXCEPT ![r].pc = "cleanup",
                                ![r].transcript = IF file \in DOMAIN disk /\ ok
                                                  THEN disk[file].url ELSE None]
    /\ UNCHANGED <<users, quizzes, questions, nextQuizId, disk, resp, authVars, calls>>

\* views.py 52, utils.py 81-83: the transcript is that of the audio in the file
TranscribeAudio(r, ok) ==
    /\ r \in DOMAIN runs
    /\ runs[r].pc = "transcribe"
    /\ LET run == runs[r]
           file == run.audio_file[1]
       IN  IF file \in DOMAIN disk /\ ok
           THEN /\ runs' = [runs EXCEPT ![r].pc = "cleanup",
                                        ![r].transcript = disk[file].url]
                /\ disk' = disk
           ELSE /\ runs' = [runs EXCEPT ![r] = Except(run)]
                /\ disk' = disk
    /\ UNCHANGED <<users, quizzes, questions, nextQuizId, resp, authVars, calls>>

\* views.py 81-82: os.remove(audio_file) in the except branch, then the 500; the
\* file may be gone since os.path.exists saw it, and os.remove then raises
\* FileNotFoundError inside the except branch, which nothing catches
ExceptRemove(r) ==
    /\ r \in DOMAIN runs
    /\ runs[r].pc = "except"
    /\ LET run == runs[r]
           file == run.audio_file[1]
       IN  IF file \in DOMAIN disk
           THEN /\ disk' = Remove(disk, file)
                /\ runs' = [runs EXCEPT ![r] = Respond(run, 500)]
           ELSE /\ disk' = disk
                /\ runs' = [runs EXCEPT ![r] = Unhandled(run)]
    /\ UNCHANGED <<users, quizzes, questions, nextQuizId, resp, authVars, calls>>

\* views.py 54-59: remove the scratch file, then ask the backend. When the file
\* is gone by now, either os.path.exists already missed it and the run goes on,
\* or os.path.exists still saw it and os.remove raises (raced): then the
\* except branch finds no file and answers 500. reply is one of
\* Replies(runs[r].transcript).
CleanupAndGenerate(r, reply, raced) ==
    /\ r \in DOMAIN runs
    /\ runs[r].pc = "cleanup"
    /\ LET file == runs[r].audio_file[1]
           quiz_data == generate_quiz_from_transcript(reply)
           run == [runs[r] EXCEPT !.quiz_data = quiz_data]
       IN  /\ disk' = IF file \in DOMAIN disk THEN Remove(disk, file) ELSE disk
           /\ runs' = [runs EXCEPT ![r] =
                IF file \notin DOMAIN disk /\ raced THEN Respond(run, 500)
                ELSE IF ~Truthy(quiz_data) THEN Respond(run, 500)
                ELSE [run EXCEPT !.pc = "persist"]]
    /\ UNCHANGED <<users, quizzes, questions, nextQuizId, resp, authVars, calls>>

\* dict.get(key, default)
Get(d, key, default) == IF key \in d.keys THEN d[key] ELSE default

\* Question.objects.create(quiz=quiz, ...): the foreign key must name a stored Quiz
QuestionRow(quiz, q_data) ==
    [quiz |-> quiz, question_title |-> q_data.question_title,
     question_options |-> q_data.question_options, answer |-> q_data.answer]

\* views.py 76-77 once the loop over the questions is through
AfterInsert(run, k) ==
    IF k > Len(Get(run.quiz_data[1], "questions", <<>>))
    THEN Respond(run, 201)
    ELSE [run EXCEPT !.pc = "questions", !.k = k]

\* views.py 61-66: Quiz.objects.create; a value that is no dict has no .get, and
\* the user foreign key must name a stored user
PersistQuiz(r) ==
    /\ r \in DOMAIN runs
    /\ runs[r].pc = "persist"
    /\ LET run == runs[r]
           quiz_data == run.quiz_data[1]
       IN  IF quiz_data.type # "dict" \/ run.user \notin DOMAIN users
           THEN /\ runs' = [runs EXCEPT ![r] = Except(run)]
                /\ disk' = disk
                /\ UNCHANGED <<quizzes, nextQuizId>>
           ELSE /\ quizzes' = (nextQuizId :>
                        [user |-> run.user,
                         title |-> Get(quiz_data, "title", "Generated Quiz"),
                         description |-> Get(quiz_data, "description", <<>>),
                         video_url |-> run.clean_url]) @@ quizzes
                /\ nextQuizId' = nextQuizId + 1
                /\ runs' = [runs EXCEPT ![r] =
                        AfterInsert([run EXCEPT !.quiz = <<nextQuizId>>], 1)]
                /\ disk' = disk
    /\ UNCHANGED <<users, questions, resp, authVars, calls>>

\* views.py 68-74: one turn of the loop; q_data[...] raises KeyError for a
\* missing key, and the insert fails when the quiz was deleted meanwhile
PersistQuestion(r) ==
    /\ r \in DOMAIN runs
    /\ runs[r].pc = "questions"
    /\ LET run == runs[r]
           q_data == run.quiz_data[1].questions[run.k]
       IN  IF q_data.keys # QuestionKeys \/ run.quiz[1] \notin DOMAIN quizzes
           THEN /\ runs' = [runs EXCEPT ![r] = Except(run)]
                /\ disk' = disk
                /\ questions' = questions
           ELSE /\ questions' = Append(questions, QuestionRow(run.quiz[1], q_data))
                /\ runs' = [runs EXCEPT ![r] = AfterInsert(run, run.k + 1)]
                /\ disk' = disk
    /\ UNCHANGED <<users, quizzes, nextQuizId, resp, authVars, calls>>

(***************************************************************************)
(* QuizListView, QuizDetailView                                            *)
(***************************************************************************)
QuestionsOf(rows, pk) == SelectSeq(rows, LAMBDA row : row.quiz = pk)

\* QuestionListSerializer: the question fields without the row's quiz
QuestionListData(row) ==
    [question_title |-> row.question_title,
     question_options |-> row.question_options, answer |-> row.answer]

MapSeq(s, Op(_)) == [i \in DOMAIN s |-> Op(s[i])]

\* Neither model has Meta.ordering and no query has order_by: the database
\* returns the n rows of a query in an order of its own, any of these
Orders(n) == {order \in [1 .. n -> 1 .. n] : \A i, j \in 1 .. n : order[i] = order[j] => i = j}
Reorder(s, order) == [i \in DOMAIN s |-> s[order[i]]]

\* quiz.questions.all() for the related_name 'questions': the orders it can come in
QuestionOrders(pk) == Orders(Len(QuestionsOf(questions, pk)))

\* QuizListSerializer(quiz).data, the questions coming in `order`
QuizListData(pk, order) ==
    [id |-> pk, title |-> quizzes[pk].title, description |-> quizzes[pk].description,
     video_url |-> quizzes[pk].video_url,
     questions |-> MapSeq(Reorder(QuestionsOf(questions, pk), order), QuestionListData)]

\* the ids in a set, ascending
RECURSIVE Ascending(_)
Ascending(S) ==
    IF S = {} THEN <<>>
    ELSE LET m == CHOOSE x \in S : \A y \in S : x <= y
         IN  <<m>> \o Ascending(S \ {m})

\* get_object without the comparison of obj.user
get_object_unscoped(pk, user) ==
    IF pk \notin DOMAIN quizzes THEN "Http404" ELSE "obj"

\* views.py 109-116: 404 for no such row, None for another user's quiz
get_object(pk, user) ==
    IF pk \notin DOMAIN quizzes THEN "Http404"
    ELSE IF quizzes[pk].user # user THEN "None"
    ELSE "obj"

\* the query without the filter on the owner: Quiz.objects.all()
FilterAll(user) == Ascending(DOMAIN quizzes)

\* Quiz.objects.filter(user=request.user)
FilterUser(user) == Ascending({pk \in DOMAIN quizzes : quizzes[pk].user = user})

\* the orders the rows of GET /quizzes can come in: one for the quizzes, and one
\* for the questions of each of them
ListOrders(user) ==
    LET pks == FilterUser(user)
    IN  {[quizzes |-> o, questions |-> qo] :
            o \in Orders(Len(pks)),
            qo \in {f \in [1 .. Len(pks) -> UNION {QuestionOrders(pks[i]) : i \in 1 .. Len(pks)}] :
                        \A i \in 1 .. Len(pks) : f[i] \in QuestionOrders(pks[i])}}

\* views.py 99-101: the response of GET /quizzes
QuizListResponse(user, order) ==
    LET pks == FilterUser(user)
    IN  [status |-> 200,
         body |-> [i \in 1 .. Len(pks) |->
                     QuizListData(pks[order.quizzes[i]], order.questions[order.quizzes[i]])]]

\* views.py 90-101
QuizListGet(user) ==
    /\ user \in DOMAIN users
    /\ \E order \in ListOrders(user) : resp' = QuizListResponse(user, order).status
    /\ UNCHANGED <<users, quizzes, questions, nextQuizId, disk, runs, authVars, calls>>

\* views.py 127-132: the response of GET /quizzes/{pk}
QuizDetailResponse(user, pk, order) ==
    LET obj == get_object(pk, user)
    IN  IF obj = "Http404" THEN [status |-> 404, body |-> None]
        ELSE IF obj = "None" THEN [status |-> 403, body |-> None]
        ELSE [status |-> 200, body |-> <<QuizListData(pk, order)>>]

\* views.py 118-132
QuizDetailGet(user, pk) ==
    /\ user \in DOMAIN users
    /\ \E order \in QuestionOrders(pk) : resp' = QuizDetailResponse(user, pk, order).status
    /\ UNCHANGED <<users, quizzes, questions, nextQuizId, disk, runs, authVars, calls>>

\* the writable fields of QuizListSerializer
PatchFields == {"title", "description", "video_url"}

\* PATCH bodies: the fields sent, and their values
PatchBodies ==
    {[keys |-> {"title"}, title |-> "", description |-> <<>>, video_url |-> <<>>],
     [keys |-> {"video_url"}, title |-> "", description |-> <<>>, video_url |-> UrlShort],
     [keys |-> {"video_url"}, title |-> "", description |-> <<>>, video_url |-> UrlInvalid],
     [keys |-> {}, title |-> "", description |-> <<>>, video_url |-> <<>>]}

\* QuizListSerializer(partial=True).is_valid(): title is a non-blank CharField,
\* description may be blank, video_url is a URLField
PatchValid(data) ==
    /\ "title" \in data.keys => data.title # ""
    /\ "video_url" \in data.keys => URLField(data.video_url)

\* serializer.save(): the fields sent replace the row's
PatchSave(row, data) ==
    [user |-> row.user,
     title |-> Get(data, "title", row.title),
     description |-> Get(data, "description", row.description),
     video_url |-> Get(data, "video_url", row.video_url)]

\* views.py 134-151
QuizDetailPatch(user, pk, data) ==
    /\ user \in DOMAIN users
    /\ LET obj == get_object(pk, user)
       IN  IF obj = "Http404"
           THEN resp' = 404 /\ quizzes' = quizzes
           ELSE IF obj = "None"
           THEN resp' = 403 /\ quizzes' = quizzes
           ELSE IF ~PatchValid(data)
           THEN resp' = 400 /\ quizzes' = quizzes
           ELSE /\ quizzes' = [quizzes EXCEPT ![pk] = PatchSave(quizzes[pk], data)]
                /\ resp' = 200
    /\ UNCHANGED <<users, questions, nextQuizId, disk, runs, authVars, calls>>

\* the deletion without the cascade to the questions
DeleteQuizzesNoCascade(pks) ==
    /\ quizzes' = [pk \in DOMAIN quizzes \ pks |-> quizzes[pk]]
    /\ questions' = questions

\* Quiz.delete() with Question.quiz on_delete=CASCADE
DeleteQuizzes(pks) ==
    /\ quizzes' = [pk \in DOMAIN quizzes \ pks |-> quizzes[pk]]
    /\ questions' = SelectSeq(questions, LAMBDA row : row.quiz \notin pks)

\* a delete that removes the row before it looks at the owner
QuizDetailDeleteUnchecked(user, pk) ==
    /\ user \in DOMAIN users
    /\ DeleteQuizzes({pk})
    /\ resp' = (IF get_object(pk, user) = "Http404" THEN 404
                ELSE IF get_object(pk, user) = "None" THEN 403 ELSE 204)
    /\ UNCHANGED <<users, nextQuizId, disk, runs, authVars, calls>>

\* views.py 153-166
QuizDetailDelete(user, pk) ==
    /\ user \in DOMAIN users
    /\ LET obj == get_object(pk, user)
       IN  IF obj = "Http404"
           THEN resp' = 404
                /\ UNCHANGED <<quizzes, questions>>
           ELSE IF obj = "None"
           THEN resp' = 403
                /\ UNCHANGED <<quizzes, questions>>
           ELSE /\ DeleteQuizzes({pk})
                /\ resp' = 204
    /\ UNCHANGED <<users, nextQuizId, disk, runs, authVars, calls>>

\* a user row is deleted (Quiz.user on_delete=CASCADE takes the user's quizzes along)
DeleteUser(user) ==
    /\ user \in DOMAIN users
    /\ users' = [u \in DOMAIN users \ {user} |-> users[u]]
    /\ DeleteQuizzes({pk \in DOMAIN quizzes : quizzes[pk].user = user})
    /\ UNCHANGED <<nextQuizId, disk, runs, resp, authVars, calls>>

\* the ids a request can name: every Quiz id that can have been given out
Pks == 1 .. MaxRuns

\* the replies drawn when the scratch files are what is looked at: no reply, a
\* reply that is no dict, and a dict with one question
ScratchReplies(transcript) ==
    {reply \in RepliesOver(transcript, {<<QA>>}) :
        \/ reply.kind = "raises"
        \/ /\ reply.kind = "json"
           /\ ~reply.fenced
           /\ \/ reply.value[1].type = "list"
              \/ reply.value[1].questions = <<QA>>}

\* the replies drawn when the stored rows are what is looked at: dicts with no
\* question, with one, and with one followed by a question that cannot be stored
StoreReplies(transcript) ==
    {reply \in RepliesOver(transcript, {<<>>, <<QA>>, <<QA, QNoAnswer>>}) :
        /\ reply.kind = "json"
        /\ ~reply.fenced
        /\ reply.value[1].keys = {"title", "description", "questions"}
        /\ reply.value[1].questions \in {<<>>, <<QA>>, <<QA, QNoAnswer>>}}

AllDone == \A r \in DOMAIN runs : runs[r].pc = "done"

\* The quiz side with one POST /quizzes in flight at a time, interleaved with
\* the list and detail views and the deletion of users.
Next ==
    \/ AllDone /\ \E user \in InitialUsers, url \in {UrlShort, UrlNoId} :
            CreateQuizValidate(user, url)
    \/ \E r \in DOMAIN runs : DownloadAudio(r, "webm")
    \/ \E r \in DOMAIN runs : LocateAudio(r)
    \/ \E r \in DOMAIN runs : TranscribeAudio(r, TRUE)
    \/ \E r \in DOMAIN runs, raced \in BOOLEAN :
            \E reply \in StoreReplies(runs[r].transcript) : CleanupAndGenerate(r, reply, raced)
    \/ \E r \in DOMAIN runs : PersistQuiz(r)
    \/ \E r \in DOMAIN runs : PersistQuestion(r)
    \/ \E user \in InitialUsers : QuizListGet(user)
    \/ \E user \in InitialUsers, pk \in Pks : QuizDetailGet(user, pk)
    \/ \E user \in InitialUsers, pk \in Pks, data \in PatchBodies :
            QuizDetailPatch(user, pk, data)
    \/ \E user \in InitialUsers, pk \in Pks : QuizDetailDelete(user, pk)
    \/ \E user \in InitialUsers : DeleteUser(user)

Spec == Init /\ [][Next]_vars

\* The pipeline with every reply of the backend, one POST /quizzes in flight at
\* a time, interleaved with the owner's and other users' DELETE.
DraftNext ==
    \/ AllDone /\ \E user \in InitialUsers, url \in CreateBodies : CreateQuizValidate(user, url)
    \/ \E r \in DOMAIN runs, outcome \in {"raises", "webm"} : DownloadAudio(r, outcome)
    \/ \E r \in DOMAIN runs : LocateAudio(r)
    \/ \E r \in DOMAIN runs, ok \in BOOLEAN : TranscribeAudio(r, ok)
    \/ \E r \in DOMAIN runs : ExceptRemove(r)
    \/ \E r \in DOMAIN runs, raced \in BOOLEAN :
            \E reply \in Replies(runs[r].transcript) : CleanupAndGenerate(r, reply, raced)
    \/ \E r \in DOMAIN runs : PersistQuiz(r)
    \/ \E r \in DOMAIN runs : PersistQuestion(r)
    \/ \E user \in InitialUsers, pk \in Pks : QuizDetailDelete(user, pk)

DraftSpec == Init /\ [][DraftNext]_vars

\* Concurrent POST /quizzes requests and their scratch files: every outcome of
\* the download, any interleaving of the runs, two requests in flight at a time.
ScratchNext ==
    \/ /\ \A r1, r2 \in {r \in DOMAIN runs : runs[r].pc # "done"} : r1 = r2
       /\ \E user \in InitialUsers, url \in CreateBodies : CreateQuizValidate(user, url)
    \/ \E r \in DOMAIN runs, outcome \in {"raises", "raises_part"} \cup RemoteExts :
            DownloadAudio(r, outcome)
    \/ \E r \in DOMAIN runs : LocateAudio(r)
    \/ \E r \in DOMAIN runs, ok \in BOOLEAN : TranscribeAudio(r, ok)
    \/ \E r \in DOMAIN runs : ExceptRemove(r)
    \/ \E r \in DOMAIN runs, raced \in BOOLEAN :
            \E reply \in ScratchReplies(runs[r].transcript) : CleanupAndGenerate(r, reply, raced)
    \/ \E r \in DOMAIN runs : PersistQuiz(r)
    \/ \E r \in DOMAIN runs : PersistQuestion(r)

ScratchSpec == Init /\ [][ScratchNext]_vars

(***************************************************************************)
(* RegisterView, LoginView, LogoutView, RefreshTokenView                   *)
(***************************************************************************)
\* users ever registered (the autoincrement id stops here)
MaxUsers == 2
\* POST /register requests that are between is_valid() and save() at one time
MaxPending == 2
\* refresh tokens ever issued
MaxTokens == 2
\* access tokens minted before POST /refresh stops minting
MaxMinted == 3

RegisterKeys == {"username", "email", "password", "confirmed_password"}

\* bodies of POST /register: all four fields, with or without matching
\* passwords; an address whose domain is written with a capital; an address
\* with no domain; a body without "email"; one without "username"
RegisterBodies ==
    {[keys |-> RegisterKeys, username |-> n, email |-> <<"ann", "Example.com">>,
      password |-> "pw1", confirmed_password |-> "pw1"] : n \in {"ann", "bob"}}
    \cup
    {[keys |-> RegisterKeys, username |-> n, email |-> <<l, "example.com">>,
      password |-> "pw1", confirmed_password |-> c] :
        n \in {"ann", "bob"}, l \in {"ann", "bob"}, c \in {"pw1", "pw2"}}
    \cup
    {[keys |-> RegisterKeys, username |-> "ann", email |-> <<"ann", "">>,
      password |-> "pw1", confirmed_password |-> c] : c \in {"pw1", "pw2"}}
    \cup
    {[keys |-> RegisterKeys \ {k}, username |-> "ann", email |-> <<"ann", "example.com">>,
      password |-> "pw1", confirmed_password |-> c] :
        k \in {"email", "username"}, c \in {"pw1", "pw2"}}

\* serializers.EmailField
EmailField(email) == email[1] # "" /\ email[2] # ""

\* The field-level pass of RegistrationSerializer (a ModelSerializer over the
\* user model): username, password and confirmed_password are required, the
\* username must not be taken (UniqueValidator), an email that is sent must be
\* an address. The result is the set of fields in error.
FieldErrors(data) ==
    {k \in {"username", "password", "confirmed_password"} : k \notin data.keys}
    \cup {k \in {"username"} :
            k \in data.keys /\ \E u \in DOMAIN users : users[u].username = data.username}
    \cup {k \in {"email"} : k \in data.keys /\ ~EmailField(data.email)}

\* validate with the email looked up before the passwords are compared
validate_email_first(data) ==
    IF "email" \notin data.keys THEN {"KeyError"}
    ELSE IF \E u \in DOMAIN users : users[u].email = data.email THEN {"email"}
    ELSE IF data.password # data.confirmed_password THEN {"password"}
    ELSE {}

\* serializers.py 39-45: RegistrationSerializer.validate, run once every field
\* passed; the set of fields in error, or "KeyError" for data['email'] without the key
validate(data) ==
    IF data.password # data.confirmed_password THEN {"password"}
    ELSE IF "email" \notin data.keys THEN {"KeyError"}
    ELSE IF \E u \in DOMAIN users : users[u].email = data.email THEN {"email"}
    ELSE {}

AuthResponse(op, status) ==
    [op |-> op, status |-> status, cookies |-> {}, deleted |-> {}, errors |-> {},
     access |-> None]

\* views.py 32-34, 41: serializer.is_valid(); the request then stands before save()
RegisterValidate(data) ==
    /\ Len(pending) < MaxPending
    /\ LET fields == FieldErrors(data)
           errors == IF fields # {} THEN fields ELSE validate(data)
       IN  IF errors = {}
           THEN /\ pending' = Append(pending, data)
                /\ authResp' = authResp
           ELSE /\ pending' = pending
                /\ authResp' = IF errors = {"KeyError"} THEN AuthResponse("register", 500)
                               ELSE [AuthResponse("register", 400) EXCEPT !.errors = errors]
    /\ UNCHANGED <<users, nextUserId, tokens, blacklisted, expired, loggedOut,
                   blacklistApp, minted, quizVars, calls>>

\* BaseUserManager.normalize_email, called by create_user: the domain part in lower case
normalize_email(email) ==
    <<email[1], IF email[2] = "Example.com" THEN "example.com" ELSE email[2]>>

\* serializers.py 60-67: create_user stores the hash; the table's unique
\* username makes the insert fail when the name was taken meanwhile
create_user(data) ==
    [username |-> data.username, email |-> normalize_email(data.email),
     password |-> make_password(data.password)]

\* views.py 35-39
RegisterSave(i) ==
    /\ i \in DOMAIN pending
    /\ pending' = [j \in 1 .. (Len(pending) - 1) |-> IF j < i THEN pending[j] ELSE pending[j + 1]]
    /\ IF \E u \in DOMAIN users : users[u].username = pending[i].username
       THEN /\ authResp' = AuthResponse("register", 500)
            /\ UNCHANGED <<users, nextUserId>>
       ELSE /\ nextUserId <= MaxUsers
            /\ users' = (nextUserId :> create_user(pending[i])) @@ users
            /\ nextUserId' = nextUserId + 1
            /\ authResp' = AuthResponse("register", 201)
    /\ UNCHANGED <<tokens, blacklisted, expired, loggedOut, blacklistApp, minted, quizVars, calls>>

LoginBodies ==
    {[keys |-> {"username", "password"}, username |-> n, password |-> p] :
        n \in {"ann", "bob"}, p \in {"pw1", "wrong"}}
    \cup {[keys |-> {"username"}, username |-> "ann", password |-> ""]}

\* django.contrib.auth.authenticate: the user of that name whose stored hash
\* matches, or None
authenticate(username, password) ==
    LET found == {u \in DOMAIN users :
                    users[u].username = username /\ check_password(password, users[u].password)}
    IN  IF found = {} THEN None ELSE <<CHOOSE u \in found : TRUE>>

Cookie(key, value, max_age) ==
    [key |-> key, value |-> value, httponly |-> TRUE, samesite |-> "Lax",
     secure |-> FALSE, max_age |-> max_age]

\* str(refresh), and str(refresh.access_token): every read of the property
\* mints an access token with a jti and an expiry of its own
RefreshValue(t) == <<"refresh", t>>
AccessValue(t) == <<"access", t, minted + 1>>

\* the two cookies with each other's max_age
LoginCookiesSwapped(t) ==
    {Cookie("access_token", AccessValue(t), 24 * 60 * 60),
     Cookie("refresh_token", RefreshValue(t), 30 * 60)}

\* views.py 86-102: the cookies of a successful login
LoginCookies(t) ==
    {Cookie("access_token", AccessValue(t), 30 * 60),
     Cookie("refresh_token", RefreshValue(t), 24 * 60 * 60)}

\* views.py 64-111
LoginPost(data) ==
    /\ IF data.keys # {"username", "password"}
       THEN authResp' = [AuthResponse("login", 400) EXCEPT
                            !.errors = {"username", "password"} \ data.keys]
            /\ UNCHANGED <<tokens, minted>>
       ELSE LET user == authenticate(data.username, data.password)
            IN  IF user = None
                THEN authResp' = AuthResponse("login", 401) /\ UNCHANGED <<tokens, minted>>
                ELSE /\ Len(tokens) < MaxTokens
                     /\ tokens' = Append(tokens, user[1])
                     /\ minted' = minted + 1
                     /\ authResp' = [AuthResponse("login", 200) EXCEPT
                                        !.cookies = LoginCookies(Len(tokens) + 1)]
    /\ UNCHANGED <<users, nextUserId, pending, blacklisted, expired, loggedOut,
                   blacklistApp, quizVars, calls>>

\* what a client can send as the refresh_token cookie: nothing, a token that
\* was issued, or text that is no token
Garbage == <<"garbage", 0>>
CookieValues == {None, Garbage} \cup {RefreshValue(t) : t \in 1 .. MaxTokens}
\* a signed token cannot be guessed: a client holds only tokens that were issued
ClientCookies == {None, Garbage} \cup {RefreshValue(t) : t \in DOMAIN tokens}

\* RefreshToken(value) raises TokenError: for text that is no issued token, for
\* an expired token, and, with the blacklist app, for a blacklisted token
TokenError(value) ==
    \/ value[1] # "refresh"
    \/ value[2] \notin DOMAIN tokens
    \/ value[2] \in expired
    \/ blacklistApp /\ value[2] \in blacklisted

LogoutResponse ==
    [AuthResponse("logout", 200) EXCEPT !.deleted = {"access_token", "refresh_token"}]

\* a logout that blacklists nothing
blacklist_nothing(refresh_token) == blacklisted

\* views.py 135-136: token.blacklist() puts the token on the blacklist
blacklist(refresh_token) == blacklisted \cup {refresh_token[2]}

\* views.py 131-150; token.blacklist exists only with the blacklist app
\* installed, and the AttributeError is caught by "except Exception"
LogoutPost(user, refresh_token) ==
    /\ user \in DOMAIN users
    /\ IF refresh_token # None /\ ~TokenError(refresh_token) /\ ~blacklistApp
       THEN /\ authResp' = AuthResponse("logout", 500)
            /\ UNCHANGED <<blacklisted, loggedOut>>
       ELSE /\ blacklisted' = IF refresh_token # None /\ ~TokenError(refresh_token)
                              THEN blacklist(refresh_token) ELSE blacklisted
            /\ loggedOut' = IF refresh_token # None
                            THEN loggedOut \cup {refresh_token} ELSE loggedOut
            /\ authResp' = LogoutResponse
    /\ UNCHANGED <<users, nextUserId, pending, tokens, expired, blacklistApp, minted, quizVars, calls>>

\* the response of a refresh that sets the refresh_token cookie as well
RefreshResponseRotating(access_token) ==
    [AuthResponse("refresh", 200) EXCEPT
        !.access = <<access_token>>,
        !.cookies = {Cookie("access_token", access_token, 30 * 60),
                     Cookie("refresh_token", access_token, 24 * 60 * 60)}]

\* views.py 179-193: the body's "access" and the access_token cookie
RefreshResponse(access_token) ==
    [AuthResponse("refresh", 200) EXCEPT
        !.access = <<access_token>>,
        !.cookies = {Cookie("access_token", access_token, 30 * 60)}]

\* views.py 168-200
RefreshPost(refresh_token) ==
    /\ IF refresh_token = None \/ TokenError(refresh_token)
       THEN /\ authResp' = AuthResponse("refresh", 401)
            /\ minted' = minted
       ELSE /\ minted < MaxMinted
            /\ authResp' = RefreshResponse(AccessValue(refresh_token[2]))
            /\ minted' = minted + 1
    /\ UNCHANGED <<users, nextUserId, pending, tokens, blacklisted, expired, loggedOut,
                   blacklistApp, quizVars, calls>>

\* the 24 hours of a refresh token pass
ExpireToken(t) ==
    /\ t \in DOMAIN tokens
    /\ t \notin expired
    /\ expired' = expired \cup {t}
    /\ UNCHANGED <<users, nextUserId, pending, tokens, blacklisted, loggedOut,
                   blacklistApp, minted, authResp, quizVars, calls>>

AuthInit ==
    /\ users = <<>>
    /\ nextUserId = 1
    /\ quizzes = <<>>
    /\ questions = <<>>
    /\ nextQuizId = 1
    /\ disk = <<>>
    /\ runs = <<>>
    /\ resp = 0
    /\ calls = <<>>
    /\ blacklistApp \in BOOLEAN
    /\ AuthInitVars

\* valid POST /register bodies, the address named after the user
SignUpBodies ==
    {[keys |-> RegisterKeys, username |-> n, email |-> <<n, "example.com">>,
      password |-> "pw1", confirmed_password |-> "pw1"] : n \in {"ann", "bob"}}

\* login, logout and refresh, the users signing up one at a time
AuthNext ==
    \/ \E data \in SignUpBodies : pending = <<>> /\ RegisterValidate(data)
    \/ \E i \in DOMAIN pending : RegisterSave(i)
    \/ \E data \in LoginBodies : LoginPost(data)
    \/ \E user \in DOMAIN users, refresh_token \in ClientCookies : LogoutPost(user, refresh_token)
    \/ \E refresh_token \in ClientCookies : RefreshPost(refresh_token)
    \/ \E t \in DOMAIN tokens : ExpireToken(t)

AuthSpec == AuthInit /\ [][AuthNext]_vars

\* POST /register with every body, requests overlapping between is_valid() and save()
RegisterNext ==
    \/ \E data \in RegisterBodies : RegisterValidate(data)
    \/ \E i \in DOMAIN pending : RegisterSave(i)

RegisterSpec == AuthInit /\ [][RegisterNext]_vars

(***************************************************************************)
(* extract_video_id on its own                                             *)
(***************************************************************************)
\* calls of extract_video_id in one behaviour
MaxCalls == 2

\* what stands before the identifier: "https://youtu.be/",
\* "https://www.youtube.com/watch?v=", "https://www.youtube.com/embed/",
\* "https://youtube-nocookie.com/embed/", "v=", "watch?", and nothing
UrlHeads ==
    {<<"h","t","t","p","s",":","/","/","y","o","u","t","u",".","b","e","/">>,
     CanonicalPrefix,
     <<"h","t","t","p","s",":","/","/","w","w","w",".","y","o","u","t","u","b","e",".","c","o","m","/","e","m","b","e","d","/">>,
     <<"h","t","t","p","s",":","/","/","y","o","u","t","u","b","e","-","n","o","c","o","o","k","i","e",".","c","o","m","/","e","m","b","e","d","/">>,
     <<"v","=">>,
     <<"w","a","t","c","h","?">>,
     <<>>}

\* "dQw4w9WgXcQ", "abc-_fghijk", 10 characters "dQw4w9WgXc", 12 characters
\* "dQw4w9WgXcQ1", and "dQw4w9Wg.cQ" with a character outside the class
UrlTokens ==
    {<<"d","Q","w","4","w","9","W","g","X","c","Q">>,
     <<"a","b","c","-","_","f","g","h","i","j","k">>,
     <<"d","Q","w","4","w","9","W","g","X","c">>,
     <<"d","Q","w","4","w","9","W","g","X","c","Q","1">>,
     <<"d","Q","w","4","w","9","W","g",".","c","Q">>}

\* what follows: nothing, "?t=10", "&v=abcdefghijk", "/abcdefghijk"
UrlTails ==
    {<<>>,
     <<"?","t","=","1","0">>,
     <<"&","v","=","a","b","c","d","e","f","g","h","i","j","k">>,
     <<"/","a","b","c","d","e","f","g","h","i","j","k">>}

UrlInputs == {head \o token \o tail : head \in UrlHeads, token \in UrlTokens, tail \in UrlTails}

\* utils.py 9-36: one call
ExtractVideoId(u) ==
    /\ Len(calls) < MaxCalls
    /\ calls' = Append(calls, [url |-> u, ret |-> extract_video_id(u)])
    /\ UNCHANGED <<users, quizVars, authVars>>

\* a string is passed in, then what the function returned is passed in again
UrlNext ==
    \/ calls = <<>> /\ \E u \in UrlInputs : ExtractVideoId(u)
    \/ calls # <<>> /\ calls[Len(calls)].ret # None /\ ExtractVideoId(calls[Len(calls)].ret)

UrlSpec == Init /\ [][UrlNext]_vars

(***************************************************************************)
(* Properties                                                              *)
(***************************************************************************)
Range(f) == {f[i] : i \in DOMAIN f}

\* C1 (ScratchSpec): once a POST /quizzes run has returned its response, no
\* scratch file that this run wrote is left on disk, whatever stage it ended in.
C1_NoScratchFileAfterResponse ==
    \A r \in DOMAIN runs :
        runs[r].pc = "done" => \A p \in DOMAIN disk : disk[p].by # r

\* C2 (ScratchSpec): two runs of different users never meet on a scratch file:
\* their base names differ, the file a run reads and removes was never written
\* by a run of another user, and a step of a run changes or removes only files
\* written by runs of its own user.
C2_DifferentUsersDifferentFiles ==
    /\ [](\A r1, r2 \in DOMAIN runs :
            runs[r1].user # runs[r2].user =>
                /\ runs[r1].temp_filename # runs[r2].temp_filename
                /\ \A p \in DOMAIN disk :
                     disk[p].by = r1 =>
                        /\ p.base # runs[r2].temp_filename
                        /\ runs[r2].audio_file # <<p>>)
    /\ [][\A r \in DOMAIN runs, p \in DOMAIN disk :
            (runs'[r] # runs[r] /\ (p \notin DOMAIN disk' \/ disk'[p] # disk[p]))
                => runs[disk[p].by].user = runs[r].user]_vars

\* two runs of different users each hold a scratch file on disk at the same time
C2_Witness ==
    \E r1, r2 \in DOMAIN runs :
        /\ runs[r1].user # runs[r2].user
        /\ runs[r1].audio_file # None /\ runs[r1].audio_file[1] \in DOMAIN disk
        /\ runs[r2].audio_file # None /\ runs[r2].audio_file[1] \in DOMAIN disk

\* C3 (Spec): GET, PATCH and DELETE on /quizzes/{pk}: 403 when the quiz exists
\* and belongs to another user, 404 when there is no such quiz, and 200/204
\* only for the owner: no detail request is answered otherwise.
C3_DetailViews403And404 ==
    [][\A user \in InitialUsers, pk \in Pks :
          ~(/\ (pk \in DOMAIN quizzes /\ quizzes[pk].user # user) => resp' = 403
            /\ pk \notin DOMAIN quizzes => resp' = 404
            /\ resp' \in {200, 204} => (pk \in DOMAIN quizzes /\ quizzes[pk].user = user))
          => ~(\/ QuizDetailGet(user, pk)
               \/ QuizDetailDelete(user, pk)
               \/ \E data \in PatchBodies : QuizDetailPatch(user, pk, data))]_vars

\* a detail request was answered 403 while a quiz of another user is stored
C3_Witness ==
    /\ resp = 403
    /\ \E pk \in DOMAIN quizzes, user \in DOMAIN users : quizzes[pk].user # user

\* C4 (AuthSpec): a refresh token that a logout answered with 200 has carried
\* gets 401 and no cookie from every later POST /refresh, expired or not.
C4_NoRefreshAfterLogout ==
    [][\A refresh_token \in CookieValues :
          (refresh_token \in loggedOut /\ RefreshPost(refresh_token))
          => (authResp'.status = 401 /\ authResp'.cookies = {})]_vars

\* an issued token that has not expired was logged out, and a refresh got 401
C4_Witness ==
    /\ authResp.op = "refresh" /\ authResp.status = 401
    /\ \E t \in DOMAIN tokens :
        RefreshValue(t) \in loggedOut /\ t \notin expired /\ t \in blacklisted

\* exactly 4 pairwise distinct options and an answer that is one of them
WellFormedQuestion(row) ==
    /\ Len(row.question_options) = 4
    /\ Cardinality(Range(row.question_options)) = 4
    /\ row.answer \in Range(row.question_options)

\* C5 (DraftSpec): every stored Question row has exactly 4 pairwise distinct
\* options and an answer that is one of them (a draft that breaks this is
\* rejected before anything is written).
C5_StoredQuestionsWellFormed ==
    \A i \in DOMAIN questions : WellFormedQuestion(questions[i])

\* C6 (DraftSpec): when the request returns from the persistence stage, the
\* Quiz row and a Question row for every question of the draft exist, or no row
\* of this request exists.
C6_PersistenceIsAtomic ==
    [][\A r \in DOMAIN runs :
          (runs[r].pc \in {"persist", "questions"} /\ runs'[r].pc = "done")
          => LET quiz == runs'[r].quiz
                 draft == Get(runs[r].quiz_data[1], "questions", <<>>)
             IN  \/ /\ quiz # None
                    /\ quiz[1] \in DOMAIN quizzes'
                    /\ QuestionsOf(questions', quiz[1]) =
                         [i \in DOMAIN draft |-> QuestionRow(quiz[1], draft[i])]
                 \/ /\ quiz = None \/ quiz[1] \notin DOMAIN quizzes'
                    /\ quiz # None => QuestionsOf(questions', quiz[1]) = <<>>]_vars

\* "https://www.youtube.com/watch?v=" followed by exactly 11 identifier characters
IsCanonical(url) ==
    /\ Len(url) = Len(CanonicalPrefix) + IdLen
    /\ HasPrefix(url, CanonicalPrefix)
    /\ \A i \in (Len(CanonicalPrefix) + 1) .. Len(url) : url[i] \in IdChars

\* C7 (Spec): the video URL of every stored Quiz is in canonical form.
C7_VideoUrlCanonical ==
    \A pk \in DOMAIN quizzes : IsCanonical(quizzes[pk].video_url)

\* C8 (Spec): every Question names a stored Quiz and every Quiz a stored
\* user; a DELETE answered 204 removes the quiz and all its questions and
\* leaves every other quiz and its questions as they were.
C8_NoOrphans ==
    /\ [](/\ \A i \in DOMAIN questions : questions[i].quiz \in DOMAIN quizzes
          /\ \A pk \in DOMAIN quizzes : quizzes[pk].user \in DOMAIN users)
    /\ [][\A user \in InitialUsers, pk \in Pks :
            (QuizDetailDelete(user, pk) /\ resp' = 204)
            => /\ pk \notin DOMAIN quizzes'
               /\ QuestionsOf(questions', pk) = <<>>
               /\ \A other \in DOMAIN quizzes \ {pk} :
                    /\ other \in DOMAIN quizzes'
                    /\ quizzes'[other] = quizzes[other]
                    /\ QuestionsOf(questions', other) = QuestionsOf(questions, other)]_vars

\* a quiz stored by a 201 run was deleted with 204 while another quiz keeps its questions
C8_Witness ==
    /\ resp = 204
    /\ \E r \in DOMAIN runs :
        runs[r].status = 201 /\ runs[r].quiz[1] \notin DOMAIN quizzes
    /\ \E pk \in DOMAIN quizzes : QuestionsOf(questions, pk) # <<>>

\* C9 (AuthSpec): POST /login: 400 and no cookie for a malformed body; 401 and
\* no cookie when the credentials do not authenticate; otherwise 200 with
\* both cookies, httpOnly, max-age 1800 (access_token) and 86400 (refresh_token).
C9_LoginCookies ==
    [][\A data \in LoginBodies :
          LoginPost(data) =>
            IF data.keys # {"username", "password"}
            THEN authResp'.status = 400 /\ authResp'.cookies = {}
            ELSE IF \E u \in DOMAIN users :
                        /\ users[u].username = data.username
                        /\ users[u].password = make_password(data.password)
            THEN /\ authResp'.status = 200
                 /\ Cardinality(authResp'.cookies) = 2
                 /\ \A c \in authResp'.cookies :
                        /\ c.httponly
                        /\ \/ c.key = "access_token" /\ c.max_age = 1800
                           \/ c.key = "refresh_token" /\ c.max_age = 86400
                 /\ {c.key : c \in authResp'.cookies} = {"access_token", "refresh_token"}
            ELSE authResp'.status = 401 /\ authResp'.cookies = {}]_vars

\* a login was answered 200 with two cookies
C9_Witness ==
    /\ authResp.op = "login" /\ authResp.status = 200
    /\ Cardinality(authResp.cookies) = 2

PasswordsDiffer(data) ==
    /\ {"password", "confirmed_password"} \subseteq data.keys
    /\ data.password # data.confirmed_password

\* C10 as stated (RegisterSpec): a POST /register whose password differs from
\* confirmed_password returns 400 with an error on the password field and
\* leaves the users unchanged; a user row is created only by a request that
\* returns 201.
C10_MismatchAlwaysPasswordError ==
    [][/\ \A data \in RegisterBodies :
            (RegisterValidate(data) /\ PasswordsDiffer(data))
            => /\ authResp'.status = 400
               /\ "password" \in authResp'.errors
               /\ users' = users
       /\ users' # users => (authResp'.op = "register" /\ authResp'.status = 201)]_vars

\* C10 as amended (RegisterSpec): a POST /register whose password differs from
\* confirmed_password returns 400 and leaves the users unchanged; the 400
\* carries the error on the password field when every field passes its own
\* validation, and otherwise the errors of the failing fields; a user row is
\* created only by a request that returns 201.
C10_MismatchIs400 ==
    [][/\ \A data \in RegisterBodies :
            (RegisterValidate(data) /\ PasswordsDiffer(data))
            => /\ authResp'.status = 400
               /\ users' = users
               /\ authResp'.errors # {}
               /\ (/\ "username" \in data.keys
                   /\ ~\E u \in DOMAIN users : users[u].username = data.username
                   /\ "email" \in data.keys => EmailField(data.email))
                  => authResp'.errors = {"password"}
       /\ users' # users => (authResp'.op = "register" /\ authResp'.status = 201)]_vars

\* a registration with differing passwords was answered 400 with the password error
C10_Witness ==
    /\ authResp.op = "register" /\ authResp.status = 400
    /\ authResp.errors = {"password"}

\* the step in which run r returns (or is left by an exception)
Returns(r) ==
    /\ r \in DOMAIN runs' /\ runs'[r].pc = "done"
    /\ r \in DOMAIN runs => runs[r].pc # "done"

\* C11 (ScratchSpec): every POST /quizzes ends in a Response and never in an
\* exception that leaves the view: 400 exactly when the body is invalid or the
\* URL has no video identifier, 201 only with the quiz and all questions of the
\* draft stored, and 500 in every other case.
C11_OneOutcomeNoFault ==
    [][\A r \in DOMAIN runs' :
          Returns(r) =>
            /\ runs'[r].status \in {400, 500, 201}
            /\ runs'[r].status = 400 <=> r \notin DOMAIN runs
            /\ runs'[r].status = 201 =>
                 LET quiz == runs'[r].quiz[1]
                     draft == Get(runs[r].quiz_data[1], "questions", <<>>)
                 IN  /\ quiz \in DOMAIN quizzes'
                     /\ QuestionsOf(questions', quiz) =
                          [i \in DOMAIN draft |-> QuestionRow(quiz, draft[i])]]_vars

\* an 11-character token starts at i in url: "v=" or "/" stands before it, 11
\* characters of the class follow, and the token ends there
TokenAt(url, i) ==
    /\ i + IdLen - 1 <= Len(url)
    /\ \/ i >= 2 /\ url[i - 1] = "/"
       \/ i >= 3 /\ SubSeq(url, i - 2, i - 1) = <<"v", "=">>
    /\ \A j \in i .. (i + IdLen - 1) : url[j] \in IdChars
    /\ i + IdLen <= Len(url) => url[i + IdLen] \notin IdChars

\* C12 (UrlSpec): for a string holding an 11-character token right after "v="
\* or "/", extract_video_id returns "https://www.youtube.com/watch?v=<token>"
\* for that token; for a string holding no such token it returns None.
C12_CanonicalForEveryToken ==
    \A c \in DOMAIN calls :
        LET url == calls[c].url
            at == {i \in 1 .. Len(url) : TokenAt(url, i)}
        IN  /\ \A i \in at : calls[c].ret = CanonicalPrefix \o SubSeq(url, i, i + IdLen - 1)
            /\ at = {} => calls[c].ret = None

\* a draft as the prompt asks for it: title, description, and questions with
\* every key, 4 distinct options and an answer among them
ValidDraft(quiz_data) ==
    /\ quiz_data.type = "dict"
    /\ quiz_data.keys = {"title", "description", "questions"}
    /\ \A i \in DOMAIN quiz_data.questions :
         /\ quiz_data.questions[i].keys = QuestionKeys
         /\ WellFormedQuestion(quiz_data.questions[i])

\* what the owner of the quiz of run r reads with GET /quizzes/{id}, the
\* questions coming in `order`
ReadBack(r, order) == QuizDetailResponse(runs[r].user, runs[r].quiz[1], order)
ReadOrders(r) == QuestionOrders(runs[r].quiz[1])

\* C13 (DraftSpec): when a run has persisted a valid draft and returned 201,
\* the owner's GET /quizzes/{id} answers 200 with the draft's title and
\* description, the canonical video URL, and the draft's questions in the
\* draft's order with the same texts, options and answers.
C13_RoundTrip ==
    [][\A r \in DOMAIN runs :
          (Returns(r) /\ runs'[r].status = 201 /\ ValidDraft(runs[r].quiz_data[1])) =>
            LET draft == runs[r].quiz_data[1]
            IN  \A order \in ReadOrders(r)' :
                  /\ ReadBack(r, order)'.status = 200
                  /\ ReadBack(r, order)'.body[1].title = draft.title
                  /\ ReadBack(r, order)'.body[1].description = draft.description
                  /\ ReadBack(r, order)'.body[1].video_url = runs[r].clean_url
                  /\ IsCanonical(runs[r].clean_url)
                  /\ ReadBack(r, order)'.body[1].questions =
                       [i \in DOMAIN draft.questions |->
                          [question_title |-> draft.questions[i].question_title,
                           question_options |-> draft.questions[i].question_options,
                           answer |-> draft.questions[i].answer]]]_vars

\* C14 (RegisterSpec): whatever the interleaving of POST /register requests,
\* no two stored users share a username and no two stored users share an email.
C14_UniqueUsernameAndEmail ==
    \A u1, u2 \in DOMAIN users :
        u1 # u2 => /\ users[u1].username # users[u2].username
                   /\ users[u1].email # users[u2].email

\* run r has passed validation and has not returned yet
InFlight(r) == r \in DOMAIN runs /\ runs[r].pc # "done"

\* C15 (ScratchSpec): two POST /quizzes runs that are in flight at the same
\* time, of the same user or not, never have the same scratch base name.
C15_BaseNameUniquePerRun ==
    \A r1, r2 \in DOMAIN runs :
        (r1 # r2 /\ InFlight(r1) /\ InFlight(r2)) =>
            runs[r1].temp_filename # runs[r2].temp_filename

\* the access tokens handed out so far
Minted == {<<"access", t, n>> : t \in DOMAIN tokens, n \in 1 .. minted}

\* C16 (AuthSpec): POST /refresh answers 401 and sets no cookie when the
\* refresh_token cookie is missing or the token is invalid (no token, expired,
\* blacklisted); with a valid refresh token it answers 200 with an access token
\* never handed out before, sets only the access_token cookie with that token
\* (httpOnly, max-age 1800), deletes no cookie and leaves the refresh tokens as
\* they were.
C16_RefreshOutcomes ==
    [][\A refresh_token \in CookieValues :
          RefreshPost(refresh_token) =>
            /\ authResp'.op = "refresh"
            /\ authResp'.deleted = {}
            /\ <<tokens, blacklisted, expired>>' = <<tokens, blacklisted, expired>>
            /\ IF \E t \in DOMAIN tokens :
                    /\ refresh_token = RefreshValue(t)
                    /\ t \notin expired
                    /\ t \notin blacklisted
               THEN /\ authResp'.status = 200
                    /\ authResp'.access # None
                    /\ authResp'.access[1] \notin Minted
                    /\ authResp'.access[1] \in Minted'
                    /\ authResp'.cookies =
                         {[key |-> "access_token", value |-> authResp'.access[1],
                           httponly |-> TRUE, samesite |-> "Lax", secure |-> FALSE,
                           max_age |-> 1800]}
               ELSE /\ authResp'.status = 401
                    /\ authResp'.cookies = {}
                    /\ authResp'.access = None]_vars

\* a refresh with a valid token was answered 200 after an access token had been minted
C16_Witness ==
    /\ authResp.op = "refresh" /\ authResp.status = 200
    /\ authResp.access # None
    /\ minted > 1

\* the stage a run stands in
Stage(pc) ==
    CASE pc \in {"download", "locate"} -> "Fetching"
      [] pc = "transcribe" -> "Transcribing"
      [] pc = "cleanup" -> "Generating"
      [] pc \in {"persist", "questions"} -> "Persisting"
      [] pc = "except" -> "Failed"
      [] pc = "done" -> "Done"

\* the stages in their order, and what a run holds when it enters one
StageOrder == <<"Fetching", "Transcribing", "Generating", "Persisting">>
EntersWith(run) ==
    CASE Stage(run.pc) = "Fetching" -> IsCanonical(run.clean_url)
      [] Stage(run.pc) = "Transcribing" -> run.audio_file # None
      [] Stage(run.pc) = "Generating" -> run.transcript # None
      [] Stage(run.pc) = "Persisting" -> Truthy(run.quiz_data) /\ run.quiz = None
      [] OTHER -> TRUE

\* C17 (ScratchSpec): a run goes through Validating, Fetching, Transcribing,
\* Generating, Persisting in this order, entering a stage only from the one
\* before it and with that one's result; a failure ends the run with no later
\* stage started and an ended run does nothing more; a Quiz row is inserted
\* only by a run in Persisting, holding a canonical URL, an audio file, a
\* transcript and a draft.
C17_StagesInOrder ==
    [][/\ \A r \in DOMAIN runs' \ DOMAIN runs :
            /\ Stage(runs'[r].pc) \in {"Fetching", "Done"}
            /\ EntersWith(runs'[r])
            /\ runs'[r].pc = "done" => runs'[r].status = 400
       /\ \A r \in DOMAIN runs :
            LET old == Stage(runs[r].pc)
                new == Stage(runs'[r].pc)
            IN  /\ old = "Done" => runs'[r] = runs[r]
                /\ old = "Failed" => new \in {"Failed", "Done"}
                /\ (new # old /\ new \notin {"Failed", "Done"}) =>
                     /\ \E i \in 1 .. (Len(StageOrder) - 1) :
                            old = StageOrder[i] /\ new = StageOrder[i + 1]
                     /\ EntersWith(runs'[r])
       /\ \A pk \in DOMAIN quizzes' \ DOMAIN quizzes :
            \E r \in DOMAIN runs :
                /\ runs[r].pc = "persist" /\ runs'[r].quiz = <<pk>>
                /\ IsCanonical(runs[r].clean_url)
                /\ quizzes'[pk].video_url = runs[r].clean_url
                /\ runs[r].audio_file # None
                /\ runs[r].transcript # None
                /\ Truthy(runs[r].quiz_data)]_vars

\* one run stored its quiz and returned 201, another ended in a failure
C17_Witness ==
    \E r1, r2 \in DOMAIN runs :
        /\ runs[r1].pc = "done" /\ runs[r1].status = 201
        /\ runs[r1].quiz # None /\ runs[r1].quiz[1] \in DOMAIN quizzes
        /\ runs[r2].pc = "done" /\ runs[r2].status = 500

\* C18 (ScratchSpec): whatever the interleaving, a run transcribes the audio it
\* downloaded for its own canonical URL, a stored quiz describes the audio of
\* its own video URL, and while a run has not transcribed its scratch file no
\* other run overwrites or removes that file.
C18_OwnAudioTranscribed ==
    /\ [](\A r \in DOMAIN runs :
            runs[r].transcript # None => runs[r].transcript = runs[r].clean_url)
    /\ [](\A pk \in DOMAIN quizzes :
            quizzes[pk].description = Summary(quizzes[pk].video_url))
    /\ [][\A r \in DOMAIN runs, p \in DOMAIN disk :
            (/\ runs[r].pc \in {"locate", "transcribe"}
             /\ disk[p].by = r
             /\ runs'[r] = runs[r])
            => (p \in DOMAIN disk' /\ disk'[p] = disk[p])]_vars

\* the ids of the quizzes in the body of a list response
ListedIds(body) == {body[i].id : i \in DOMAIN body}

\* the quizzes whose owner is user
OwnedBy(user) == {pk \in DOMAIN quizzes : quizzes[pk].user = user}

\* C19 (Spec): after any sequence of creations, updates and deletions, and in
\* whatever order the rows come, the body of GET /quizzes for a user holds every
\* quiz the user owns, each once, and no quiz of another user.
C19_ListIsExactlyOwn ==
    \A user \in DOMAIN users :
        \A order \in ListOrders(user) :
            LET body == QuizListResponse(user, order).body
            IN  /\ ListedIds(body) = OwnedBy(user)
                /\ Len(body) = Cardinality(OwnedBy(user))
                /\ QuizListResponse(user, order).status = 200

\* a list has been answered while two users each own a quiz
C19_Witness ==
    /\ resp = 200
    /\ \E u1, u2 \in DOMAIN users :
         /\ u1 # u2
         /\ OwnedBy(u1) # {}
         /\ OwnedBy(u2) # {}
         /\ \E order \in ListOrders(u1) :
              ListedIds(QuizListResponse(u1, order).body) = OwnedBy(u1)

\* C20 (Spec): a PATCH or DELETE on /quizzes/{id} answered 403 or 404, and a
\* PATCH answered 400, changes no Quiz row, no Question row and no user: a step
\* that changes the store is no such request.
C20_RefusedLeavesStore ==
    [][~UNCHANGED <<users, quizzes, questions, nextQuizId>> =>
         /\ \A user \in DOMAIN users, pk \in Pks, data \in PatchBodies :
               QuizDetailPatch(user, pk, data) => resp' \notin {400, 403, 404}
         /\ \A user \in DOMAIN users, pk \in Pks :
               QuizDetailDelete(user, pk) => resp' \notin {403, 404}]_vars

\* a request on another user's quiz has been refused while that quiz, with a
\* question, is stored
C20_Witness ==
    /\ resp = 403
    /\ \E pk \in DOMAIN quizzes, user \in DOMAIN users :
         /\ quizzes[pk].user # user
         /\ get_object(pk, user) = "None"
         /\ QuestionsOf(questions, pk) # <<>>

\* C21 (UrlSpec): extract_video_id is idempotent on its results: when a call
\* returned a canonical URL c, the call on c returns c again.
C21_IdempotentOnResults ==
    \A i, j \in DOMAIN calls :
        (calls[i].ret # None /\ calls[j].url = calls[i].ret)
        => calls[j].ret = calls[i].ret

\* a string that was not canonical got a canonical URL, and that URL was
\* passed in again
C21_Witness ==
    \E j \in DOMAIN calls :
        /\ j > 1
        /\ calls[1].ret # None
        /\ calls[1].url # calls[1].ret
        /\ calls[j].url = calls[1].ret
        /\ calls[j].ret # None

====
